---------------------------- MODULE Spec2Model ----------------------------
(***************************************************************************)
(* ScribusGenerator back end (src/ScribusGeneratorBackend.py).             *)
(*                                                                         *)
(* Text is a sequence of one-character strings, so that str.replace, the   *)
(* cleanup regular expression, str.strip and str.startswith are computed   *)
(* character by character, as Python computes them.                        *)
(***************************************************************************)
EXTENDS Integers, Sequences, FiniteSets, TLC

VARIABLES
    \* ---- replaceVariablesWithCsvData applied to bounded inputs ----
    sHeader,    \* headerRow: sequence of field names
    sRow,       \* row: sequence of cells, as long as the header
    sPieces,    \* the pieces the template line is put together from
    sClean,     \* the clean argument (default CONST.REMOVE_EMPTY_LINES)
    sPhase,     \* "idle" (a run is modelled) | "in" | "once" | "twice"
    sOut,       \* the result of the first application
    sOut2,      \* the result of applying the function to sOut
    \* ---- one invocation of ScribusGenerator.run ----
    cfg,            \* the GeneratorDataObject (the user's settings)
    repeatFields,   \* the switch CONST.REPEAT_FIELDS of the source file
    dataFile,       \* the rows getCsvData reads from the data source
    tpl,            \* the Scribus source file, as ElementTree parses it
    pc,             \* where run() stands
    csvData,        \* csvData: header row and selected data rows
    index,          \* index: the row the loop is at
    ref,            \* what run() keeps of the reference document
    outputElt,      \* << >> while unbound, else <<the consolidated document>>
    outputFileNames,
    written,        \* the writeSLA calls so far: [name, doc]
    exported,       \* the exportPDF calls so far: names
    deleted,        \* the deleteFile calls that removed a file: names
    tplParsed,      \* ET.parse was called on the source file
    tplSaved,       \* tree.write rewrote the source file
    templateElt,    \* templateElt: the parsed template, attributes overwritten
    exitedEarly,    \* run() returned from the repeat detection
    ret,            \* the value returned: 1, -1, or 0 while none is
    raised          \* an exception left run()

substVars == <<sHeader, sRow, sPieces, sClean, sPhase, sOut, sOut2>>

inputVars == <<cfg, repeatFields, dataFile, tpl>>

runVars == <<pc, csvData, index, ref, outputElt, outputFileNames, written,
             exported, deleted, tplParsed, tplSaved, templateElt, exitedEarly,
             ret, raised>>

vars == <<substVars, inputVars, runVars>>

-----------------------------------------------------------------------------
(* Bounds of the model.                                                    *)

\* longest template line, in pieces
MaxPieces == 3

-----------------------------------------------------------------------------
(* Characters and text.                                                    *)

\* the vertical tab, '\x0b' (written as the character itself)
VerticalTab == ""

\* Python's string.whitespace, matched by \s and removed by strip()
Whitespace == {" ", "\t", "\n", "\r", "\f", VerticalTab}

\* the characters \w matches (str patterns, no LOCALE / UNICODE flag)
WordChars ==
    {"a", "b", "c", "d", "e", "f", "g", "h", "i", "j", "k", "l", "m",
     "n", "o", "p", "q", "r", "s", "t", "u", "v", "w", "x", "y", "z",
     "A", "B", "C", "D", "E", "F", "G", "H", "I", "J", "K", "L", "M",
     "N", "O", "P", "Q", "R", "S", "T", "U", "V", "W", "X", "Y", "Z",
     "0", "1", "2", "3", "4", "5", "6", "7", "8", "9", "_"}

EMPTY == << >>

VarPrefix == <<"%", "V", "A", "R", "_">>

ColorPrefix == <<"<", "C", "O", "L", "O", "R", " ">>

\* '%VAR_' + name + '%'
VarToken(name) == VarPrefix \o name \o <<"%">>

\* s[i-1:].startswith(pat), i being 1-based
MatchesAt(s, i, pat) ==
    /\ i + Len(pat) - 1 <= Len(s)
    /\ \A k \in 1..Len(pat) : s[i + k - 1] = pat[k]

StartsWith(s, pat) == MatchesAt(s, 1, pat)

RECURSIVE LStrip(_)
LStrip(s) ==
    IF s # << >> /\ Head(s) \in Whitespace THEN LStrip(Tail(s)) ELSE s

RECURSIVE RStrip(_)
RStrip(s) ==
    IF s # << >> /\ s[Len(s)] \in Whitespace
    THEN RStrip(SubSeq(s, 1, Len(s) - 1))
    ELSE s

\* str.strip()
Strip(s) == RStrip(LStrip(s))

RECURSIVE ReplaceFrom(_, _, _, _)
ReplaceFrom(s, i, old, new) ==
    IF i > Len(s) THEN << >>
    ELSE IF MatchesAt(s, i, old)
         THEN new \o ReplaceFrom(s, i + Len(old), old, new)
         ELSE <<s[i]>> \o ReplaceFrom(s, i + 1, old, new)

\* str.replace(old, new) for a non-empty old: the leftmost non-overlapping
\* occurrences, found in one scan of the original text
Replace(s, old, new) == ReplaceFrom(s, 1, old, new)

RECURSIVE Concat(_)
Concat(ss) == IF ss = << >> THEN << >> ELSE Head(ss) \o Concat(Tail(ss))

-----------------------------------------------------------------------------
(* The cleanup expression  \s*%VAR_\w*%\s*  of re.subn.                    *)

RECURSIVE SkipWhile(_, _, _)
\* the first position >= i of s whose character is not in set
SkipWhile(s, i, set) ==
    IF i <= Len(s) /\ s[i] \in set THEN SkipWhile(s, i + 1, set) ELSE i

\* The end (exclusive) of the match of \s*%VAR_\w*%\s* starting at i, or 0.
\* Every quantifier is greedy and is followed by a character outside its
\* class, so the match at a position is unique.
VarMatchEnd(s, i) ==
    LET j == SkipWhile(s, i, Whitespace)
        k == SkipWhile(s, j + Len(VarPrefix), WordChars)
    IN IF MatchesAt(s, j, VarPrefix) /\ k <= Len(s) /\ s[k] = "%"
       THEN SkipWhile(s, k + 1, Whitespace)
       ELSE 0

\* the match the cleanup expression finds at position i
CleanMatchEnd(s, i) == VarMatchEnd(s, i)

RECURSIVE CleanFrom(_, _)
\* [line, d]: the text from position i on with every match removed, and the
\* number of matches removed
CleanFrom(s, i) ==
    IF i > Len(s) THEN [line |-> << >>, d |-> 0]
    ELSE LET e == CleanMatchEnd(s, i)
         IN IF e # 0
            THEN LET r == CleanFrom(s, e)
                 IN [line |-> r.line, d |-> r.d + 1]
            ELSE LET r == CleanFrom(s, i + 1)
                 IN [line |-> <<s[i]>> \o r.line, d |-> r.d]

\* re.subn(r"\s*%VAR_\w*%\s*", "", line)
CleanVars(line) == CleanFrom(line, 1)

-----------------------------------------------------------------------------
(* replaceVariablesWithCsvData                                             *)

\* line.strip().startswith('<COLOR ')
IsColorLine(line) == StartsWith(Strip(line), ColorPrefix)

RECURSIVE SubstCells(_, _, _, _)
\* the loop over the cells of row, from cell i on; the colour test is made
\* anew for every cell, on the line as the earlier cells left it
SubstCells(headerRow, row, line, i) ==
    IF i > Len(row) THEN line
    ELSE LET tmp == VarToken(headerRow[i])
             next == IF ~IsColorLine(line)
                     THEN Replace(line, tmp, row[i])
                     ELSE line
         IN SubstCells(headerRow, row, next, i + 1)

\* the body of "for line in lines"
SubstLine(headerRow, row, line, clean) ==
    LET l == SubstCells(headerRow, row, line, 1)
    IN IF clean THEN CleanVars(l).line ELSE l

RECURSIVE replaceVariablesWithCsvData(_, _, _, _)
\* Len(row) <= Len(headerRow) is expected (a longer row raises IndexError)
replaceVariablesWithCsvData(headerRow, row, lines, clean) ==
    IF lines = << >> THEN << >>
    ELSE SubstLine(headerRow, row, Head(lines), clean)
         \o replaceVariablesWithCsvData(headerRow, row, Tail(lines), clean)

-----------------------------------------------------------------------------
(* Inputs of the substitution: headers, cells and template lines.         *)

FieldA == <<"a">>
FieldB == <<"b">>
\* names no header of the model holds: one of word characters, one with
\* another character in it
FieldZ == <<"z">>
FieldHyphen == <<"e", "-">>

Headers == { <<FieldA>>, <<FieldA, FieldB>> }

\* cell values: plain text, and text of the form %VAR_<field>%
Cells == { <<"y">>, VarToken(FieldA), VarToken(FieldB) }

\* the pieces of a template line: text, a blank, a vertical tab, the start
\* of a colour definition, the tokens of known and of unknown names, and
\* %VAR_%, which has no name
TextPiece == <<"x">>
SpacePiece == <<" ">>
Pieces == { TextPiece, SpacePiece, <<VerticalTab>>, ColorPrefix,
            VarToken(FieldA), VarToken(FieldB), VarToken(FieldZ),
            VarToken(FieldHyphen), VarToken(EMPTY) }

RowsFor(h) == [1..Len(h) -> Cells]

PieceLines == UNION { [1..n -> Pieces] : n \in 0..MaxPieces }

TheLine == Concat(sPieces)

\* no run is under way
RunIdle ==
    /\ cfg = << >>
    /\ repeatFields = 0
    /\ dataFile = << >>
    /\ tpl = << >>
    /\ pc = "idle"
    /\ csvData = << >>
    /\ index = 0
    /\ ref = << >>
    /\ outputElt = << >>
    /\ outputFileNames = << >>
    /\ written = << >>
    /\ exported = << >>
    /\ deleted = << >>
    /\ tplParsed = FALSE
    /\ tplSaved = FALSE
    /\ templateElt = << >>
    /\ exitedEarly = FALSE
    /\ ret = 0
    /\ raised = FALSE

InitSubst ==
    /\ sHeader \in Headers
    /\ sRow \in RowsFor(sHeader)
    /\ sPieces \in PieceLines
    /\ sClean \in BOOLEAN
    /\ sPhase = "in"
    /\ sOut = << >>
    /\ sOut2 = << >>
    /\ RunIdle

\* result = replaceVariablesWithCsvData(headerRow, row, [line], clean)
Substitute ==
    /\ sPhase = "in"
    /\ sOut' = replaceVariablesWithCsvData(sHeader, sRow, <<TheLine>>, sClean)
    /\ sPhase' = "once"
    /\ UNCHANGED <<sHeader, sRow, sPieces, sClean, sOut2>>
    /\ UNCHANGED <<inputVars, runVars>>

\* the same call on the result of the first
SubstituteAgain ==
    /\ sPhase = "once"
    /\ sOut2' = replaceVariablesWithCsvData(sHeader, sRow, <<sOut>>, sClean)
    /\ sPhase' = "twice"
    /\ UNCHANGED <<sHeader, sRow, sPieces, sClean, sOut>>
    /\ UNCHANGED <<inputVars, runVars>>

NextSubst == Substitute \/ SubstituteAgain

SpecSubst == InitSubst /\ [][NextSubst]_vars

-----------------------------------------------------------------------------
(* Numbers as text: str(), int(), zfill().                                 *)

Digits == <<"0", "1", "2", "3", "4", "5", "6", "7", "8", "9">>

DigitVal(c) == CHOOSE d \in 0..9 : Digits[d + 1] = c

RECURSIVE StrNat(_)
StrNat(n) ==
    IF n < 10 THEN <<Digits[n + 1]>>
    ELSE StrNat(n \div 10) \o <<Digits[(n % 10) + 1]>>

\* str(n) of an integer
str(n) == IF n < 0 THEN <<"-">> \o StrNat(-n) ELSE StrNat(n)

RECURSIVE IntNat(_)
IntNat(s) ==
    IF s = << >> THEN 0
    ELSE IntNat(SubSeq(s, 1, Len(s) - 1)) * 10 + DigitVal(s[Len(s)])

\* int(s) of decimal text
int(s) == IF Head(s) = "-" THEN -IntNat(Tail(s)) ELSE IntNat(s)

RECURSIVE zfill(_, _)
\* s.zfill(width) of unsigned decimal text
zfill(s, width) == IF Len(s) >= width THEN s ELSE zfill(<<"0">> \o s, width)

\* s[3:]
DropThree(s) == SubSeq(s, 4, Len(s))

-----------------------------------------------------------------------------
(* handleAmpersand, and the '&' of ElementTree's serialisation.            *)

Amp == <<"&">>
AmpEntity == <<"&", "a", "m", "p", ";">>

\* handleAmpersand(row): i.replace('&', '&amp;') for every cell
handleAmpersand(row) ==
    [i \in 1..Len(row) |-> Replace(row[i], Amp, AmpEntity)]

\* an attribute value as ET.tostringlist writes it (of the characters the
\* serialiser escapes, only '&' occurs in the model's texts)
EscapeAttrib(text) == Replace(text, Amp, AmpEntity)

\* an attribute value as ET.fromstring reads it back
UnescapeAttrib(text) == Replace(text, AmpEntity, Amp)

-----------------------------------------------------------------------------
(* createOutputFileName                                                    *)

\* the characters the translate table maps to '_'
IllegalInFileNames == {"<", ">", "?", "\"", ":", "|", "\\", "/", "*"}

\* result.translate(table)
Translate(s) ==
    [k \in 1..Len(s) |-> IF s[k] \in IllegalInFileNames THEN "_" ELSE s[k]]

\* the default of the clean parameter of replaceVariablesWithCsvData and of
\* writeSLA: CONST.REMOVE_EMPTY_LINES, as a truth value
CleanByDefault == TRUE

createOutputFileName(idx, outputFileName, headerRow, row, fillCount) ==
    IF outputFileName # EMPTY
    THEN Translate(replaceVariablesWithCsvData(headerRow, row,
                                               <<outputFileName>>,
                                               CleanByDefault))
    ELSE zfill(str(idx), fillCount)

-----------------------------------------------------------------------------
(* Documents.  A document is what ElementTree holds of an SLA file:        *)
(*   Version, ANZPAGES, PAGEHEIGHT, GapVertical, GROUPC, DOCCONTRIB (the   *)
(*   number of contribution notices appended), JAVA, COLOR, pages and objs *)
(*   (the PAGE and PAGEOBJECT children of DOCUMENT, in document order).    *)
(* GROUPC is << >> when DOCUMENT has no such attribute and <<text>> when   *)
(* it has; JAVA is << >> when DOCUMENT has no JAVA child of the NAME       *)
(* CONST.STORAGE_NAME and <<script>> when it has one, script being what    *)
(* its attribute SCRIPT holds; COLOR is the number of the COLOR children   *)
(* of DOCUMENT, which come before the pages, the JAVA child before them.   *)
(* A page is [PAGEYPOS, NUM]; an object is [YPOS, OwnPage, ItemID,         *)
(* NEXTITEM, BACKITEM, ANNAME, FONT, ITEXT, SGA].  ItemID is decimal text; *)
(* NEXTITEM, BACKITEM, ANNAME and FONT are << >> when the attribute is     *)
(* absent and <<text>> when it is present; ITEXT is the sequence of the CH *)
(* texts of the ITEXT children; SGA is the sequence of the ItemAttribute   *)
(* grandchildren, each [Type, Name, Value, Parameter]; kids is the         *)
(* sequence of the PAGEOBJECT children of a group (objects of the same     *)
(* shape, without kids of their own); in document order the ITEXT and the  *)
(* ItemAttributes of a PAGEOBJECT come before its kids; text is the white   *)
(* space between the start tag of the PAGEOBJECT and its first child, unit *)
(* the indentation of one level (both EMPTY in a file written without      *)
(* white space between its tags).  Coordinates are whole numbers, for      *)
(* which float() and str() are exact.  Every page and object also carries  *)
(* rec and idx: the record it was rendered from (0 for the first) and its  *)
(* place in the template; the code does not read them.                     *)

NoLink == <<"-", "1">>

\* the substitution as run() applies it to the serialised template: every
\* attribute value is one element of ET.tostringlist
RenderText(headerRow, row, text) ==
    UnescapeAttrib(SubstLine(headerRow, row, EscapeAttrib(text),
                             CleanByDefault))

\* ET.fromstring(replaceVariablesWithCsvData(headerRow, row,
\*                                           ET.tostringlist(templateElt)))
\* for one PAGEOBJECT whose placeholders are in its texts, in FONT and in
\* the values of its ItemAttributes
RenderObject(obj, headerRow, row) ==
    [obj EXCEPT
        !.ITEXT = [k \in 1..Len(obj.ITEXT) |->
                      RenderText(headerRow, row, obj.ITEXT[k])],
        !.FONT = [k \in 1..Len(obj.FONT) |->
                     RenderText(headerRow, row, obj.FONT[k])],
        !.SGA = [k \in 1..Len(obj.SGA) |->
                    [obj.SGA[k] EXCEPT
                        !.Value = RenderText(headerRow, row, @)]]]

\* the same for a document: the SCRIPT of its settings element, where the
\* output name is the one member that holds placeholders, and its
\* PAGEOBJECTs and those nested in them
RenderDoc(elt, headerRow, row) ==
    [elt EXCEPT
        !.JAVA = [k \in 1..Len(elt.JAVA) |->
                     [elt.JAVA[k] EXCEPT
                         !.outname = RenderText(headerRow, row, @)]],
        !.objs =
        [j \in 1..Len(elt.objs) |->
            [RenderObject(elt.objs[j], headerRow, row) EXCEPT
                !.kids = [k \in 1..Len(elt.objs[j].kids) |->
                             RenderObject(elt.objs[j].kids[k], headerRow,
                                          row)]]]]

\* po.findall("./ITEXT[@CH='']") is not empty
HasEmptyText(po) == \E k \in 1..Len(po.ITEXT) : po.ITEXT[k] = EMPTY

\* lines 309-312: the ITEXT children with an empty CH are removed from po
WithoutEmptyTexts(po) ==
    [po EXCEPT !.ITEXT = SelectSeq(po.ITEXT, LAMBDA t : t # EMPTY)]

\* lines 308-315 for a page that is a group PAGEOBJECT: its members with an
\* empty ITEXT lose their empty ITEXTs, and are removed from the group when
\* no ITEXT is left
CleanGroup(group) ==
    LET Stays(po) ==
            ~ (HasEmptyText(po) /\ WithoutEmptyTexts(po).ITEXT = << >>)
        kept == SelectSeq(group.kids, Stays)
    IN [group EXCEPT
           !.kids = [m \in 1..Len(kept) |-> WithoutEmptyTexts(kept[m])]]

\* lines 308-315 for the page DOCUMENT, over the members of one group:
\* page.findall(".//ITEXT[@CH='']/..") finds them too, and for the first of
\* them that is left without ITEXT page.remove(po) raises ValueError, po
\* being no child of DOCUMENT
RECURSIVE CleanMembers(_)
CleanMembers(kids) ==
    IF kids = << >> THEN [kids |-> << >>, raised |-> FALSE]
    ELSE LET po == Head(kids)
         IN IF ~HasEmptyText(po)
            THEN LET rest == CleanMembers(Tail(kids))
                 IN [kids |-> <<po>> \o rest.kids, raised |-> rest.raised]
            ELSE IF WithoutEmptyTexts(po).ITEXT = << >>
            THEN [kids |-> <<WithoutEmptyTexts(po)>> \o Tail(kids),
                  raised |-> TRUE]
            ELSE LET rest == CleanMembers(Tail(kids))
                 IN [kids |-> <<WithoutEmptyTexts(po)>> \o rest.kids,
                     raised |-> rest.raised]

\* lines 308-315 for the page DOCUMENT, in document order: a child with an
\* empty ITEXT loses its empty ITEXTs and is removed when no ITEXT is left;
\* then come the members of the child
RECURSIVE CleanDocument(_)
CleanDocument(objs) ==
    IF objs = << >> THEN [objs |-> << >>, raised |-> FALSE]
    ELSE LET po == Head(objs)
             cleaned == IF HasEmptyText(po) THEN WithoutEmptyTexts(po)
                        ELSE po
             removed == HasEmptyText(po) /\ cleaned.ITEXT = << >>
             members == CleanMembers(po.kids)
             here == IF removed THEN << >>
                     ELSE <<[cleaned EXCEPT !.kids = members.kids]>>
         IN IF members.raised
            THEN [objs |-> here \o Tail(objs), raised |-> TRUE]
            ELSE LET rest == CleanDocument(Tail(objs))
                 IN [objs |-> here \o rest.objs, raised |-> rest.raised]

\* removeEmptyTexts(root): root after the call, and whether the call raised
\* ValueError.  The pages of line 307 are the grandparents of the empty
\* ITEXTs in document order (the ITEXTs of a PAGEOBJECT before its members):
\* the groups before the first child of DOCUMENT that has an empty ITEXT
\* come first, then DOCUMENT, which takes all that is left
removeEmptyTexts(root) ==
    LET top == { j \in 1..Len(root.objs) : HasEmptyText(root.objs[j]) }
        first == IF top = {} THEN Len(root.objs) + 1
                 ELSE CHOOSE j \in top : \A i \in top : j <= i
        groupsFirst ==
            [j \in 1..Len(root.objs) |->
                IF j < first THEN CleanGroup(root.objs[j]) ELSE root.objs[j]]
        document == IF top = {} THEN [objs |-> groupsFirst, raised |-> FALSE]
                    ELSE CleanDocument(groupsFirst)
    IN [root |-> [root EXCEPT !.objs = document.objs],
        raised |-> document.raised]

\* writeSLA(slaET, outFileName): the file written, under its name, and the
\* tree slaET after the call; nothing is written when removeEmptyTexts
\* raised
writeSLA(slaET, outFileName, clean) ==
    LET r == IF clean THEN removeEmptyTexts(slaET)
             ELSE [root |-> slaET, raised |-> FALSE]
    IN [name |-> outFileName, doc |-> r.root, raised |-> r.raised]

-----------------------------------------------------------------------------
(* The elements of the template as ElementTree holds them.                 *)

\* the tags of a PAGEOBJECT, of its texts and of its item attributes
TagPAGEOBJECT == <<"P", "A", "G", "E", "O", "B", "J", "E", "C", "T">>
TagITEXT == <<"I", "T", "E", "X", "T">>
TagPageItemAttributes ==
    <<"P", "a", "g", "e", "I", "t", "e", "m", "A", "t", "t", "r", "i", "b", "u", "t", "e", "s">>
TagItemAttribute ==
    <<"I", "t", "e", "m", "A", "t", "t", "r", "i", "b", "u", "t", "e">>

\* the names of the attributes the model keeps
AttrItemID == <<"I", "t", "e", "m", "I", "D">>
AttrYPOS == <<"Y", "P", "O", "S">>
AttrOwnPage == <<"O", "w", "n", "P", "a", "g", "e">>
AttrNEXTITEM == <<"N", "E", "X", "T", "I", "T", "E", "M">>
AttrBACKITEM == <<"B", "A", "C", "K", "I", "T", "E", "M">>
AttrANNAME == <<"A", "N", "N", "A", "M", "E">>
AttrFONT == <<"F", "O", "N", "T">>
AttrCH == <<"C", "H">>
AttrType == <<"T", "y", "p", "e">>
AttrName == <<"N", "a", "m", "e">>
AttrValue == <<"V", "a", "l", "u", "e">>
AttrParameter == <<"P", "a", "r", "a", "m", "e", "t", "e", "r">>

\* the Type of the ItemAttributes that overwrite
SGAttribute == <<"S", "G", "A", "t", "t", "r", "i", "b", "u", "t", "e">>

\* the attributes of a PAGEOBJECT, as pairs of a name and a text
ObjectAttrib(po) ==
    {<<AttrItemID, po.ItemID>>, <<AttrYPOS, str(po.YPOS)>>,
     <<AttrOwnPage, str(po.OwnPage)>>}
    \cup {<<AttrNEXTITEM, po.NEXTITEM[k]>> : k \in 1..Len(po.NEXTITEM)}
    \cup {<<AttrBACKITEM, po.BACKITEM[k]>> : k \in 1..Len(po.BACKITEM)}
    \cup {<<AttrANNAME, po.ANNAME[k]>> : k \in 1..Len(po.ANNAME)}
    \cup {<<AttrFONT, po.FONT[k]>> : k \in 1..Len(po.FONT)}

RECURSIVE ElementOf(_)
\* a PAGEOBJECT as an element (its tag, its attributes, its text, its tail,
\* its children): its ITEXT children, then the PageItemAttributes that
\* holds its ItemAttributes (when it has any), then the PAGEOBJECTs nested
\* in it.  An element without children has no text.  In an indented file
\* the text of an element with children is the white space before its first
\* child, the tail of a child the white space before the tag that follows
\* it: as deep as the child before a sibling, one unit less before the end
\* tag of the parent
ElementOf(po) ==
    LET inner == po.text
        deeper == po.text \o po.unit
        outer == SubSeq(po.text, 1, Len(po.text) - Len(po.unit))
        Element(tag, attrib, text, children) ==
            [tag |-> tag, attrib |-> attrib, text |-> text, tail |-> EMPTY,
             children |-> children]
        Text(k) == Element(TagITEXT, {<<AttrCH, po.ITEXT[k]>>}, EMPTY, << >>)
        Item(a, last) ==
            [Element(TagItemAttribute,
                     {<<AttrType, a.Type>>, <<AttrName, a.Name>>,
                      <<AttrValue, a.Value>>,
                      <<AttrParameter, a.Parameter>>},
                     EMPTY, << >>)
                EXCEPT !.tail = IF last THEN inner ELSE deeper]
        WithTails(children) ==
            [c \in 1..Len(children) |->
                [children[c] EXCEPT
                    !.tail = IF c = Len(children) THEN outer ELSE inner]]
        Parent(children) ==
            Element(TagPAGEOBJECT, ObjectAttrib(po),
                    IF children = << >> THEN EMPTY ELSE inner,
                    WithTails(children))
    IN Parent([k \in 1..Len(po.ITEXT) |-> Text(k)]
              \o (IF po.SGA = << >> THEN << >>
                  ELSE <<Element(TagPageItemAttributes, {}, deeper,
                                 [i \in 1..Len(po.SGA) |->
                                     Item(po.SGA[i], i = Len(po.SGA))])>>)
              \o [m \in 1..Len(po.kids) |-> ElementOf(po.kids[m])])

RECURSIVE itertext(_)
\* "".join(e.itertext()): the text of e, then of every child its itertext
\* and its tail
itertext(e) ==
    e.text \o Concat([c \in 1..Len(e.children) |->
                         itertext(e.children[c]) \o e.children[c].tail])

RECURSIVE NodeAt(_, _)
\* the element at a place: the positions, from the element e down, of the
\* child to take at each level
NodeAt(e, at) ==
    IF at = << >> THEN e ELSE NodeAt(e.children[Head(at)], Tail(at))

ChildrenAt(e, at) ==
    {Append(at, c) : c \in 1..Len(NodeAt(e, at).children)}

RECURSIVE DescendantsAt(_, _)
\* elem.iter() without elem itself
DescendantsAt(e, at) ==
    UNION {{c} \cup DescendantsAt(e, c) : c \in ChildrenAt(e, at)}

-----------------------------------------------------------------------------
(* Element.findall: the paths of xml.etree.ElementPath (Python 2.7).       *)

\* the characters that are no part of a name:  / [ ] ( ) @ =  and \s
NameStops == {"/", "[", "]", "(", ")", "@", "="} \cup Whitespace

\* a token of xpath_tokenizer: op is the operator, "name" for a name (and
\* for a run of whitespace, which is a name without text), "'" for a quoted
\* text, and "prefix" for a name with a ':' in it, at which the tokenizer
\* raises SyntaxError (no prefix map is given)
Token(op, tag) == [op |-> op, tag |-> tag]

RECURSIVE IndexFrom(_, _, _)
\* the first position >= i of s whose character is c, 0 when there is none
IndexFrom(s, i, c) ==
    IF i > Len(s) THEN 0
    ELSE IF s[i] = c THEN i ELSE IndexFrom(s, i + 1, c)

RECURSIVE NameEnd(_, _)
\* the first position >= i of s whose character is no part of a name
NameEnd(s, i) ==
    IF i <= Len(s) /\ s[i] \notin NameStops THEN NameEnd(s, i + 1) ELSE i

\* the operator that starts at position i of s, "" when none does
OpAt(s, i) ==
    LET c == s[i]
        d == IF i < Len(s) THEN s[i + 1] ELSE ""
    IN IF c = ":" /\ d = ":" THEN "::"
       ELSE IF c = "/" /\ d = "/" THEN "//"
       ELSE IF c = "." /\ d = "." THEN ".."
       ELSE IF c = "(" /\ d = ")" THEN "()"
       ELSE IF c \in {"/", ".", "*", ":", "[", "]", "(", ")", "@", "="} THEN c
       ELSE ""

NameToken(name) ==
    IF Head(name) # "{" /\ \E k \in 1..Len(name) : name[k] = ":"
    THEN Token("prefix", name)
    ELSE Token("name", name)

RECURSIVE Tokens(_, _)
\* xpath_tokenizer_re.findall(s) from position i on: a quoted text, else an
\* operator, else a name (with '{...}' before it, if it has one), else a
\* run of whitespace
Tokens(s, i) ==
    IF i > Len(s) THEN << >>
    ELSE LET c == s[i]
             close == IF c \in {"'", "\""} THEN IndexFrom(s, i + 1, c) ELSE 0
             op == OpAt(s, i)
             brace == IF c = "{" THEN IndexFrom(s, i + 1, "}") ELSE 0
             from == IF brace > i + 1 /\ brace < Len(s)
                        /\ s[brace + 1] \notin NameStops
                     THEN brace + 1
                     ELSE i
             end == NameEnd(s, from)
         IN IF close > 0
            THEN <<Token("'", SubSeq(s, i + 1, close - 1))>>
                 \o Tokens(s, close + 1)
            ELSE IF op \in {"::", "//", "..", "()"}
            THEN <<Token(op, << >>)>> \o Tokens(s, i + 2)
            ELSE IF op # ""
            THEN <<Token(op, << >>)>> \o Tokens(s, i + 1)
            ELSE IF c \in Whitespace
            THEN <<Token("name", << >>)>>
                 \o Tokens(s, SkipWhile(s, i, Whitespace))
            ELSE <<NameToken(SubSeq(s, i, end - 1))>> \o Tokens(s, end)

\* re.match("\d+$", s)
IsDigits(s) ==
    /\ s # << >>
    /\ \A k \in 1..Len(s) : \E d \in 1..10 : Digits[d] = s[k]

\* int(s) does not raise ValueError
IsIntText(s) ==
    IF s # << >> /\ Head(s) \in {"+", "-"}
    THEN IsDigits(Tail(s))
    ELSE IsDigits(s)

\* one step of a compiled path
Selector(sel, tag, value, at) ==
    [sel |-> sel, tag |-> tag, value |-> value, index |-> at]

\* prepare_predicate, of the tokens between '[' and ']': the selector, or
\* none for SyntaxError
Predicate(body) ==
    LET sig == [k \in 1..Len(body) |-> body[k].op]
        text(k) == body[k].tag
        last == <<"l", "a", "s", "t">>
        number(s) == IF Head(s) = "+" THEN int(Tail(s)) ELSE int(s)
    IN IF sig = <<"@", "name">>
       THEN <<Selector("[@attribute]", text(2), << >>, 0)>>
       ELSE IF sig = <<"@", "name", "=", "'">>
       THEN <<Selector("[@attribute='value']", text(2), text(4), 0)>>
       ELSE IF sig = <<"name">> /\ ~IsDigits(text(1))
       THEN <<Selector("[tag]", text(1), << >>, 0)>>
       ELSE IF sig = <<"name", "=", "'">> /\ ~IsDigits(text(1))
       THEN <<Selector("[tag='value']", text(1), text(3), 0)>>
       ELSE IF sig = <<"name">>
       THEN <<Selector("[index]", << >>, << >>, int(text(1)) - 1)>>
       ELSE IF sig = <<"name", "()">> /\ text(1) = last
       THEN <<Selector("[index]", << >>, << >>, -1)>>
       ELSE IF sig = <<"name", "()", "name">> /\ text(1) = last
               /\ IsIntText(text(3))
       THEN <<Selector("[index]", << >>, << >>, number(text(3)) - 1)>>
       ELSE << >>

\* ops[token[0]](next, token) for token k, which starts a step: the
\* selector and the last token it takes, or the exception raised:
\* SyntaxError by prepare_descendant and prepare_predicate (']' is token
\* e, 0 when there is none), KeyError when ops has no such key
StepAt(ts, k) ==
    LET Failed(e) == [error |-> e, selector |-> << >>, last |-> 0]
        Step(sel, e) == [error |-> "", selector |-> <<sel>>, last |-> e]
        Found(preds, e) ==
            IF preds = << >> THEN Failed("SyntaxError")
            ELSE Step(preds[1], e)
        Bracketed(e) ==
            IF e = 0 THEN Failed("SyntaxError")
            ELSE IF \E j \in (k + 1)..e : ts[j].op = "prefix"
            THEN Failed("SyntaxError")
            ELSE Found(Predicate(SubSeq(ts, k + 1, e - 1)), e)
    IN IF ts[k].op = "name"
       THEN Step(Selector("child", ts[k].tag, << >>, 0), k)
       ELSE IF ts[k].op = "*" THEN Step(Selector("*", << >>, << >>, 0), k)
       ELSE IF ts[k].op = "." THEN Step(Selector(".", << >>, << >>, 0), k)
       ELSE IF ts[k].op = ".." THEN Step(Selector("..", << >>, << >>, 0), k)
       ELSE IF ts[k].op = "//"
       THEN IF k = Len(ts) THEN Failed("SyntaxError")
            ELSE IF ts[k + 1].op = "*"
            THEN Step(Selector("//", <<"*">>, << >>, 0), k + 1)
            ELSE IF ts[k + 1].op = "name"
            THEN Step(Selector("//", ts[k + 1].tag, << >>, 0), k + 1)
            ELSE Failed("SyntaxError")
       ELSE IF ts[k].op = "["
       THEN Bracketed(IndexFrom([j \in 1..Len(ts) |-> ts[j].op], k + 1,
                                "]"))
       ELSE Failed("KeyError")

RECURSIVE Compile(_, _)
\* the loop of iterfind from token k on, which starts a step: the selectors,
\* or the exception raised; after a step the next token, and the one after
\* it when it is '/', starts the next step
Compile(ts, k) ==
    LET After(step, k1) ==
            IF step.error # ""
            THEN [error |-> step.error, selectors |-> << >>]
            ELSE IF \E j \in (step.last + 1)..k1 :
                       j <= Len(ts) /\ ts[j].op = "prefix"
            THEN [error |-> "SyntaxError", selectors |-> << >>]
            ELSE IF k1 > Len(ts)
            THEN [error |-> "", selectors |-> step.selector]
            ELSE [error |-> Compile(ts, k1).error,
                  selectors |-> IF Compile(ts, k1).error # "" THEN << >>
                                ELSE step.selector
                                     \o Compile(ts, k1).selectors]
        Next(step) ==
            After(step, IF step.last < Len(ts) /\ ts[step.last + 1].op = "/"
                        THEN step.last + 2
                        ELSE step.last + 1)
    IN Next(StepAt(ts, k))

\* elems[index] is elem, index counting from the end when negative, elems
\* being parent.findall(elem.tag): the children of the parent of the
\* element at a place that have its tag, in document order
IsAtIndex(e, at, i) ==
    LET up == SubSeq(at, 1, Len(at) - 1)
        elems == SelectSeq([c \in 1..Len(NodeAt(e, up).children) |->
                               Append(up, c)],
                           LAMBDA a : NodeAt(e, a).tag = NodeAt(e, at).tag)
        k == IF i < 0 THEN Len(elems) + i + 1 ELSE i + 1
    IN k \in 1..Len(elems) /\ elems[k] = at

\* select(context, result) of one step, from the places in result
Select(e, s, result) ==
    LET children == UNION {ChildrenAt(e, at) : at \in result}
        HasChild(at) == \E c \in ChildrenAt(e, at) : NodeAt(e, c).tag = s.tag
    IN CASE s.sel = "child" -> {c \in children : NodeAt(e, c).tag = s.tag}
         [] s.sel = "*" -> children
         [] s.sel = "." -> result
         [] s.sel = ".." ->
                {SubSeq(at, 1, Len(at) - 1) : at \in result \ {<< >>}}
         [] s.sel = "//" ->
                {d \in UNION {DescendantsAt(e, at) : at \in result} :
                    s.tag = <<"*">> \/ NodeAt(e, d).tag = s.tag}
         [] s.sel = "[@attribute]" ->
                {at \in result :
                    \E p \in NodeAt(e, at).attrib : p[1] = s.tag}
         [] s.sel = "[@attribute='value']" ->
                {at \in result : <<s.tag, s.value>> \in NodeAt(e, at).attrib}
         [] s.sel = "[tag]" -> {at \in result : HasChild(at)}
         [] s.sel = "[tag='value']" ->
                {at \in result :
                    \E c \in ChildrenAt(e, at) :
                        /\ NodeAt(e, c).tag = s.tag
                        /\ itertext(NodeAt(e, c)) = s.value}
         [] s.sel = "[index]" ->
                {at \in result \ {<< >>} : IsAtIndex(e, at, s.index)}

RECURSIVE SelectAll(_, _, _)
SelectAll(e, selectors, result) ==
    IF selectors = << >> THEN result
    ELSE SelectAll(e, Tail(selectors), Select(e, Head(selectors), result))

\* iterfind(elem, path): the places of the elements found, or the
\* exception; a path that ends with '/' gets a '*' after it
FoundBy(e, path) ==
    LET Found(c) ==
            [error |-> c.error,
             nodes |-> IF c.error = ""
                       THEN SelectAll(e, c.selectors, {<< >>})
                       ELSE {}]
        CompileTokens(p, ts) ==
            IF StartsWith(p, <<"/">>)
            THEN [error |-> "SyntaxError", selectors |-> << >>]
            ELSE IF ts = << >>
            THEN [error |-> "StopIteration", selectors |-> << >>]
            ELSE IF ts[1].op = "prefix"
            THEN [error |-> "SyntaxError", selectors |-> << >>]
            ELSE Compile(ts, 1)
        CompilePath(p) == Found(CompileTokens(p, Tokens(p, 1)))
    IN CompilePath(IF path # << >> /\ path[Len(path)] = "/"
                   THEN Append(path, "*")
                   ELSE path)

\* pageobject.findall(path): whether the path is a SyntaxError, the
\* exception of another kind that it raises ("" for none), whether the
\* PAGEOBJECT itself is found, which of its ITEXT children are, and the
\* places of the other elements found
findall(pageobject, path) ==
    LET Targets(found) ==
            [syntaxError |-> found.error = "SyntaxError",
             exception |-> IF found.error = "SyntaxError" THEN ""
                           ELSE found.error,
             self |-> << >> \in found.nodes,
             texts |-> {k \in 1..Len(pageobject.ITEXT) :
                           <<k>> \in found.nodes},
             other |-> {at \in found.nodes :
                           at # << >>
                           /\ ~(Len(at) = 1
                                /\ at[1] <= Len(pageobject.ITEXT))}]
    IN Targets(FoundBy(ElementOf(pageobject), path))

-----------------------------------------------------------------------------
(* overwriteAttributesFromSGAttributes                                     *)

\* lines 247-250: '' becomes '.', and a path that starts with '/' gets a
\* '.' before it ('param is ""' holds for the empty attribute value that
\* ElementTree hands out, the one empty str object of CPython 2)
TargetPath(param) ==
    IF param = EMPTY THEN <<".">>
    ELSE IF StartsWith(param, <<"/">>) THEN <<".">> \o param
    ELSE param

\* the ItemAttributes of a PAGEOBJECT that have Type 'SGAttribute'
SGAttributesOf(pageobject) ==
    SelectSeq(pageobject.SGA, LAMBDA a : a.Type = SGAttribute)

RECURSIVE FirstSGAttribute(_)
\* line 242: pageobject.find(".//ItemAttribute[@Type='SGAttribute']"), the
\* first in document order below the PAGEOBJECT, or none
FirstSGAttribute(pageobject) ==
    IF SGAttributesOf(pageobject) # << >>
    THEN <<SGAttributesOf(pageobject)[1]>>
    ELSE LET below == [m \in 1..Len(pageobject.kids) |->
                          FirstSGAttribute(pageobject.kids[m])]
             some == {m \in 1..Len(below) : below[m] # << >>}
         IN IF some = {} THEN << >>
            ELSE below[CHOOSE m \in some : \A l \in some : m <= l]

\* target.set(attribute, value) on a PAGEOBJECT: every attribute the model
\* keeps of one is set (YPOS and OwnPage, which the model keeps as numbers,
\* to the number the text value is); an attribute of another name is none
\* of the object of the model
SetOnObject(obj, attribute, value) ==
    CASE attribute = AttrFONT -> [obj EXCEPT !.FONT = <<value>>]
      [] attribute = AttrANNAME -> [obj EXCEPT !.ANNAME = <<value>>]
      [] attribute = AttrItemID -> [obj EXCEPT !.ItemID = value]
      [] attribute = AttrNEXTITEM -> [obj EXCEPT !.NEXTITEM = <<value>>]
      [] attribute = AttrBACKITEM -> [obj EXCEPT !.BACKITEM = <<value>>]
      [] attribute = AttrYPOS -> [obj EXCEPT !.YPOS = int(value)]
      [] attribute = AttrOwnPage -> [obj EXCEPT !.OwnPage = int(value)]
      [] OTHER -> obj

\* target.set(attribute, value) on an ITEXT (the model keeps its CH)
SetOnText(ch, attribute, value) ==
    IF attribute = AttrCH THEN value ELSE ch

\* target.set(attribute, value) on an ItemAttribute
SetOnItemAttribute(a, attribute, value) ==
    CASE attribute = AttrType -> [a EXCEPT !.Type = value]
      [] attribute = AttrName -> [a EXCEPT !.Name = value]
      [] attribute = AttrValue -> [a EXCEPT !.Value = value]
      [] attribute = AttrParameter -> [a EXCEPT !.Parameter = value]
      [] OTHER -> a

RECURSIVE SetAt(_, _, _, _)
\* target.set(attribute, value) on the element at a place below a
\* PAGEOBJECT (the model keeps no attribute of a PageItemAttributes)
SetAt(po, at, attribute, value) ==
    LET texts == Len(po.ITEXT)
        attrs == IF po.SGA = << >> THEN 0 ELSE 1
    IN IF at = << >> THEN SetOnObject(po, attribute, value)
       ELSE IF Head(at) <= texts
       THEN [po EXCEPT !.ITEXT[Head(at)] = SetOnText(@, attribute, value)]
       ELSE IF Head(at) = texts + attrs
       THEN IF Len(at) = 1 THEN po
            ELSE [po EXCEPT
                     !.SGA[at[2]] = SetOnItemAttribute(@, attribute, value)]
       ELSE [po EXCEPT
                !.kids[Head(at) - texts - attrs] =
                    SetAt(@, Tail(at), attribute, value)]

RECURSIVE SetAll(_, _, _, _)
\* lines 255-257: target.set(attribute, value) for every target
SetAll(po, targets, attribute, value) ==
    IF targets = {} THEN po
    ELSE LET at == CHOOSE a \in targets : TRUE
         IN SetAll(SetAt(po, at, attribute, value), targets \ {at},
                   attribute, value)

\* the body of the loop, lines 242-262: sga is the FIRST ItemAttribute of
\* Type 'SGAttribute' that pageobject.find meets (sga.get raises
\* AttributeError when there is none left); a SyntaxError of the path is
\* logged, another exception leaves the loop, and every target found gets
\* the attribute
OverwriteFromSGAttribute(pageobject) ==
    LET SetOnTargets(sga, found) ==
            IF found.error = "SyntaxError"
            THEN [obj |-> pageobject, raised |-> FALSE]
            ELSE IF found.error # ""
            THEN [obj |-> pageobject, raised |-> TRUE]
            ELSE [obj |-> SetAll(pageobject, found.nodes, sga.Name,
                                 sga.Value),
                  raised |-> FALSE]
        OverwriteFrom(first) ==
            IF first = << >> THEN [obj |-> pageobject, raised |-> TRUE]
            ELSE SetOnTargets(first[1],
                              FoundBy(ElementOf(pageobject),
                                      TargetPath(first[1].Parameter)))
    IN OverwriteFrom(FirstSGAttribute(pageobject))

RECURSIVE OverwriteIfAnnotated(_, _)
\* line 241: the PAGEOBJECTs that have an ItemAttribute of Type
\* 'SGAttribute' two levels down when the loop starts (parsed is the
\* PAGEOBJECT as parsed) are visited in document order, a PAGEOBJECT
\* before those nested in it
OverwriteIfAnnotated(pageobject, parsed) ==
    LET WithKids(own, below) ==
            [obj |-> [own.obj EXCEPT
                         !.kids = [m \in 1..Len(below) |-> below[m].obj]],
             raised |-> own.raised
                        \/ \E m \in 1..Len(below) : below[m].raised]
        Below(own) ==
            WithKids(own, [m \in 1..Len(parsed.kids) |->
                              OverwriteIfAnnotated(own.obj.kids[m],
                                                   parsed.kids[m])])
    IN Below(IF SGAttributesOf(parsed) # << >>
             THEN OverwriteFromSGAttribute(pageobject)
             ELSE [obj |-> pageobject, raised |-> FALSE])

\* the template with its attributes overwritten, or the exception that
\* leaves the loop
overwriteAttributesFromSGAttributes(root) ==
    LET WithObjects(visited) ==
            [root |-> [root EXCEPT
                          !.objs = [j \in 1..Len(visited) |->
                                       visited[j].obj]],
             raised |-> \E j \in 1..Len(visited) : visited[j].raised]
    IN WithObjects([j \in 1..Len(root.objs) |->
                       OverwriteIfAnnotated(root.objs[j], root.objs[j])])

-----------------------------------------------------------------------------
(* shiftPagesAndObjects                                                    *)

\* voffset = (float(pageheight) + float(vgap)) * index
VOffset(pageheight, vgap, idx) == (pageheight + vgap) * idx

\* version.startswith('1.4'): links are by position
LinksByPosition(version) == StartsWith(version, <<"1", ".", "4">>)

\* a link of the 1.4 scheme: moved by objscount * index unless absent or -1
ShiftLinkByPosition(link, stride) ==
    IF link # << >> /\ link[1] # NoLink
    THEN <<str(int(link[1]) + stride)>>
    ELSE link

\* str(objscount * index) + str(int(id))[3:]
ShiftItemID(id, stride) == str(stride) \o DropThree(str(int(id)))

\* a link of the 1.5 scheme: rewritten as ItemID is unless absent or -1
ShiftLinkByItemID(link, stride) ==
    IF link # << >> /\ link[1] # NoLink
    THEN <<ShiftItemID(link[1], stride)>>
    ELSE link

ShiftPage(page, pagescount, voffset, idx) ==
    [page EXCEPT !.PAGEYPOS = @ + voffset,
                 !.NUM = @ + pagescount,
                 !.rec = idx]

ShiftObject(obj, pagescount, voffset, idx, objscount, version) ==
    LET moved == [obj EXCEPT !.YPOS = @ + voffset,
                             !.OwnPage = @ + pagescount,
                             !.rec = idx]
    IN IF LinksByPosition(version)
       THEN [moved EXCEPT
                !.NEXTITEM = ShiftLinkByPosition(@, objscount * idx),
                !.BACKITEM = ShiftLinkByPosition(@, objscount * idx)]
       ELSE [moved EXCEPT
                !.ItemID = ShiftItemID(@, objscount * idx),
                !.NEXTITEM = ShiftLinkByItemID(@, objscount * idx),
                !.BACKITEM = ShiftLinkByItemID(@, objscount * idx)]

\* len(outputElt.findall('.//PAGEOBJECT')): the PAGEOBJECTs at any depth
RECURSIVE CountObjects(_)
CountObjects(objs) ==
    IF objs = << >> THEN 0
    ELSE 1 + CountObjects(Head(objs).kids) + CountObjects(Tail(objs))

\* the shifted pages and objects of docElt (groupscount is not used);
\* docElt.findall('PAGEOBJECT') are the children of DOCUMENT only, the
\* PAGEOBJECTs nested in them are returned as they are
shiftPagesAndObjects(docElt, pagescount, pageheight, vgap, idx, groupscount, objscount, version) ==
    LET voffset == VOffset(pageheight, vgap, idx)
    IN [pages |-> [j \in 1..Len(docElt.pages) |->
                      ShiftPage(docElt.pages[j], pagescount, voffset, idx)],
        objs |-> [j \in 1..Len(docElt.objs) |->
                      ShiftObject(docElt.objs[j], pagescount, voffset, idx,
                                  objscount, version)]]

-----------------------------------------------------------------------------
(* Inputs of a run: settings, data source, template.                       *)

\* most data rows in a data source
MaxRows == 3

\* most pages in a template
MaxPages == 2

\* the switch CONST.REPEAT_FIELDS as the source file sets it
REPEAT_FIELDS == 1

FORMAT_PDF == "PDF"
FORMAT_SLA == "Scribus"

\* getFirstRow() / getLastRow(): '' (CONST.EMPTY), text that int() refuses,
\* or an integer
BoundEmpty == [k |-> "empty", v |-> 0]
BoundText == [k |-> "text", v |-> 0]
BoundInt(n) == [k |-> "int", v |-> n]

RowBounds ==
    {BoundEmpty, BoundText} \cup { BoundInt(n) : n \in (-2)..(MaxRows + 1) }

DataHeader == <<FieldA, FieldB>>

DataRows == { << <<"A">>, <<"r">> >>, << <<"B">>, <<"&">> >> }

\* the data sources: an empty file, or a header row and 0..MaxRows rows
DataFiles ==
    { << >> } \cup
    UNION { { <<DataHeader>> \o rows : rows \in [1..n -> DataRows] } :
            n \in 0..MaxRows }

\* the output name templates: none, a fixed name, a name made of the record
OutputNames ==
    { EMPTY, <<"o">>, VarToken(FieldA) \o <<"/">> \o VarToken(FieldB) }

\* base name of the Scribus source file
SourceBaseName == <<"t">>

SingleSuffix == <<"_", "_", "s", "i", "n", "g", "l", "e">>

OutputFormats == { FORMAT_PDF, FORMAT_SLA, "" }

Version14 == <<"1", ".", "4", ".", "6">>
Version15 == <<"1", ".", "5", ".", "8">>

PlainName == <<"T", "1">>
RepeatName == <<"S", "G", "r", "e", "p", "e", "a", "t", "_", "D", "2", "_", "x">>

\* the white space of an indented SLA file: the indentation of one level
IndentUnit == <<" ">>

\* the ITEXT of a text frame: "%VAR_a% %VAR_b%"
MergeText == VarToken(FieldA) \o <<" ">> \o VarToken(FieldB)

\* page j of a template whose pages are stacked top to bottom
TemplatePage(j, h, g) ==
    [PAGEYPOS |-> 20 + (j - 1) * (h + g), NUM |-> j - 1, rec |-> 0, idx |-> j]

\* object j of a template of np pages: on page j (the last page if there are
\* fewer pages), with identifier ids[j]; linked objects form one chain of
\* text frames in document order; the first object has the name anname and
\* the ItemAttributes sga; its text, as a PAGEOBJECT child of DOCUMENT, is
\* a line break and the indentation of its children
TemplateObject(j, np, h, g, ids, version, linked, anname, sga) ==
    LET pg == IF j <= np THEN j ELSE np
        n == Len(ids)
        to(i) == IF LinksByPosition(version) THEN str(i - 1) ELSE ids[i]
    IN [YPOS |-> TemplatePage(pg, h, g).PAGEYPOS + j,
        OwnPage |-> pg - 1,
        ItemID |-> ids[j],
        NEXTITEM |-> IF linked /\ j < n THEN <<to(j + 1)>> ELSE <<NoLink>>,
        BACKITEM |-> IF linked /\ j > 1 THEN <<to(j - 1)>>
                     ELSE IF linked THEN <<NoLink>> ELSE << >>,
        ANNAME |-> IF j = 1 THEN anname ELSE << >>,
        FONT |-> << <<"F">> >>,
        SGA |-> IF j = 1 THEN sga ELSE << >>,
        kids |-> << >>,
        text |-> <<"\n">> \o IndentUnit \o IndentUnit \o IndentUnit,
        unit |-> IndentUnit,
        ITEXT |-> IF j = 1 THEN <<MergeText>> ELSE <<VarToken(FieldZ)>>,
        rec |-> 0,
        idx |-> j]

Template(np, h, g, ids, version, linked, anname, sga) ==
    [Version |-> version,
     ANZPAGES |-> np,
     PAGEHEIGHT |-> h,
     GapVertical |-> g,
     GROUPC |-> << <<"0">> >>,
     DOCCONTRIB |-> 0,
     JAVA |-> << >>,
     COLOR |-> 1,
     pages |-> [j \in 1..np |-> TemplatePage(j, h, g)],
     objs |-> [j \in 1..Len(ids) |->
                  TemplateObject(j, np, h, g, ids, version, linked, anname,
                                 sga)]]

\* identifier of the group object of a template
GroupID == <<"3", "0", "0", "3">>

\* a template of version 1.5 whose objects are the members of one group:
\* the PAGEOBJECT child of DOCUMENT is the group, the objects with the
\* identifiers ids are PAGEOBJECT children of the group
GroupTemplate(np, h, g, ids, linked) ==
    LET flat == Template(np, h, g, ids, Version15, linked, << >>, << >>)
        group == [flat.objs[1] EXCEPT !.ItemID = GroupID,
                                      !.NEXTITEM = <<NoLink>>,
                                      !.BACKITEM = << >>,
                                      !.ITEXT = << >>,
                                      !.kids =
                                          [m \in 1..Len(flat.objs) |->
                                              [flat.objs[m] EXCEPT
                                                  !.text = @ \o IndentUnit]]]
    IN [flat EXCEPT !.GROUPC = << <<"1">> >>, !.objs = <<group>>]

\* a template as a file without white space between its tags
WithoutWhiteSpace(template) ==
    LET Plain(po) == [po EXCEPT !.text = EMPTY, !.unit = EMPTY]
    IN [template EXCEPT
           !.objs = [j \in 1..Len(template.objs) |->
                        [Plain(template.objs[j]) EXCEPT
                            !.kids = [m \in 1..Len(template.objs[j].kids) |->
                                         Plain(template.objs[j].kids[m])]]]]

\* identifiers of the objects of a template, pairwise distinct
ItemIDs ==
    { << <<"1", "0", "0", "1">> >>,
      << <<"1", "0", "0", "1">>, <<"1", "0", "0", "2">> >>,
      << <<"1", "0", "0", "1">>, <<"2", "0", "0", "1">> >>,
      << <<"7">>, <<"8">> >> }

\* most ItemAttributes on one PAGEOBJECT
MaxAnnotations == 2

ItemAttribute(type, name, value, param) ==
    [Type |-> type, Name |-> name, Value |-> value, Parameter |-> param]

\* the ItemAttributes of the model: overwriting FONT, ANNAME or NEXTITEM of
\* the PAGEOBJECT itself (no path, or '.'), CH of its ITEXT children (a
\* relative path, an absolute-style path and '*'), a path that finds no
\* node, a path that is a SyntaxError, a path that raises KeyError, a path
\* that asks for the text of a child, and an ItemAttribute of another Type
ItemAttributes ==
    { ItemAttribute(SGAttribute, AttrFONT, VarToken(FieldA), EMPTY),
      ItemAttribute(SGAttribute, AttrFONT, <<"G">>, <<".">>),
      ItemAttribute(SGAttribute, AttrANNAME, <<"N">>, EMPTY),
      ItemAttribute(SGAttribute, AttrNEXTITEM, <<"5">>, <<".">>),
      ItemAttribute(SGAttribute, AttrCH, VarToken(FieldB),
                    <<"/">> \o TagITEXT),
      ItemAttribute(SGAttribute, AttrCH, <<"c">>, TagITEXT),
      ItemAttribute(SGAttribute, AttrCH, <<"d">>, <<"*">>),
      ItemAttribute(SGAttribute, AttrFONT, <<"H">>, <<"N", "O", "P", "E">>),
      ItemAttribute(SGAttribute, AttrFONT, <<"H">>, TagITEXT \o <<"[">>),
      ItemAttribute(SGAttribute, AttrFONT, <<"H">>, <<"@">>),
      ItemAttribute(SGAttribute, AttrFONT, <<"I">>,
                    <<".", "[">> \o TagPageItemAttributes
                    \o <<"=", "'", "'", "]">>),
      ItemAttribute(<<"n", "o", "n", "e">>, AttrFONT, <<"Z">>, EMPTY) }

SimpleTemplate ==
    Template(1, 10, 2, << <<"1", "0", "0", "1">> >>, Version15, FALSE, << >>,
             << >>)

\* the GeneratorDataObject. unicodeName tells which object holds the output
\* name: a str, as given to the constructor or a setter and as lines
\* 562-563 store for a JSON null (CONST.EMPTY itself), or a unicode object,
\* as loadFromString stores for a JSON string (u'' for the empty one)
Settings(single, name, format, keep, first, last, save, unicodeName) ==
    [singleOutput |-> single,
     outputFileName |-> name,
     outputFormat |-> format,
     keepGeneratedScribusFiles |-> keep,
     firstRow |-> first,
     lastRow |-> last,
     saveSettings |-> save,
     unicodeName |-> unicodeName]

\* lines 543-556, toString: the settings as JSON, held as the object that
\* the text encodes: all members but the source file and saveSettings; the
\* output name is kept as its characters, which json.dumps writes as they
\* are; the data file, the output directory and the separator are the same
\* in every run and left out
toString(settings) ==
    [outname |-> settings.outputFileName,
     outformat |-> settings.outputFormat,
     keepsla |-> settings.keepGeneratedScribusFiles,
     single |-> settings.singleOutput,
     from |-> settings.firstRow,
     to |-> settings.lastRow]

\* runs that differ in the row range
InitRange ==
    /\ \E single \in BOOLEAN, first \in RowBounds, last \in RowBounds :
          cfg = Settings(single, EMPTY, FORMAT_SLA, 0, first, last, FALSE,
                         FALSE)
    /\ repeatFields \in {0, REPEAT_FIELDS}
    /\ dataFile \in DataFiles
    /\ tpl = SimpleTemplate

\* runs that differ in the output settings and in the names of the objects
InitOutput ==
    /\ \E single \in BOOLEAN, name \in OutputNames, format \in OutputFormats,
          keep \in {0, 1}, save \in BOOLEAN, unicodeName \in BOOLEAN :
          cfg = Settings(single, name, format, keep, BoundEmpty, BoundEmpty,
                         save, unicodeName)
    /\ repeatFields \in {0, REPEAT_FIELDS}
    /\ dataFile \in DataFiles
    /\ \E anname \in { << >>, <<PlainName>>, <<RepeatName>> } :
          tpl = Template(1, 10, 2, << <<"1", "0", "0", "1">> >>, Version15,
                         FALSE, anname, << >>)

\* runs that differ in the template folded into one document
InitFold ==
    /\ cfg = Settings(TRUE, EMPTY, FORMAT_SLA, 0, BoundEmpty, BoundEmpty,
                      FALSE, FALSE)
    /\ repeatFields = 0
    /\ dataFile \in { f \in DataFiles :
                        \A i \in 2..Len(f) : f[i] = << <<"A">>, <<"r">> >> }
    /\ \E np \in 1..MaxPages, ids \in ItemIDs,
          version \in {Version14, Version15}, linked \in BOOLEAN :
          \E counted \in {Template(np, 10, 2, ids, version, linked, << >>,
                                    << >>),
                           GroupTemplate(np, 10, 2, ids, linked)} :
             tpl \in {counted, [counted EXCEPT !.GROUPC = << >>]}

\* runs that differ in the ItemAttributes of the template's object
InitOverride ==
    /\ \E single \in BOOLEAN, save \in BOOLEAN :
          cfg = Settings(single, EMPTY, FORMAT_SLA, 0, BoundEmpty, BoundEmpty,
                         save, FALSE)
    /\ repeatFields \in {0, REPEAT_FIELDS}
    /\ dataFile = <<DataHeader, << <<"A">>, <<"r">> >> >>
    /\ \E n \in 1..MaxAnnotations : \E sga \in [1..n -> ItemAttributes] :
          \E indented \in {Template(1, 10, 2, << <<"1", "0", "0", "1">> >>,
                                    Version15, FALSE, << >>, sga)} :
             tpl \in {indented, WithoutWhiteSpace(indented)}

\* runs that differ in what the template file holds before the run: the
\* settings of an earlier run or none, COLOR children or none
InitStored ==
    /\ \E single \in BOOLEAN, name \in OutputNames, save \in BOOLEAN :
          cfg = Settings(single, name, FORMAT_SLA, 0, BoundEmpty, BoundEmpty,
                         save, FALSE)
    /\ repeatFields = 0
    /\ dataFile \in { f \in DataFiles : Len(f) >= 2 }
    /\ \E stored \in { << >>,
                        <<toString(Settings(FALSE, VarToken(FieldB),
                                            FORMAT_PDF, 1, BoundEmpty,
                                            BoundEmpty, TRUE, FALSE))>> },
          colors \in {0, 1} :
          /\ stored # << >> \/ colors = 0
          /\ tpl = [Template(1, 10, 2, << <<"1", "0", "0", "1">> >>,
                             Version15, FALSE, << >>, << >>)
                       EXCEPT !.JAVA = stored, !.COLOR = colors]

Init ==
    /\ InitRange \/ InitOutput \/ InitFold \/ InitOverride \/ InitStored
    /\ pc = "start"
    /\ csvData = << >>
    /\ index = 0
    /\ ref = << >>
    /\ outputElt = << >>
    /\ outputFileNames = << >>
    /\ written = << >>
    /\ exported = << >>
    /\ deleted = << >>
    /\ tplParsed = FALSE
    /\ tplSaved = FALSE
    /\ templateElt = << >>
    /\ exitedEarly = FALSE
    /\ ret = 0
    /\ raised = FALSE
    /\ sHeader = << >>
    /\ sRow = << >>
    /\ sPieces = << >>
    /\ sClean = FALSE
    /\ sPhase = "idle"
    /\ sOut = << >>
    /\ sOut2 = << >>

-----------------------------------------------------------------------------
(* ScribusGenerator.run                                                    *)

Min(a, b) == IF a < b THEN a ELSE b
Max(a, b) == IF a > b THEN a ELSE b

\* seq[a:b] of Python, for integers a and b
PySlice(seq, a, b) ==
    LET n == Len(seq)
        lo == IF a < 0 THEN Max(a + n, 0) ELSE Min(a, n)
        hi == IF b < 0 THEN Max(b + n, 0) ELSE Min(b, n)
    IN SubSeq(seq, lo + 1, hi)

\* firstElement: max(int(firstRow), 1), or 1 when firstRow is '' or int()
\* refuses it
FirstElement(firstRow) ==
    IF firstRow.k = "int" THEN Max(firstRow.v, 1) ELSE 1

\* lastElement: min(int(lastRow) + 1, len(csvData)), or len(csvData) when
\* lastRow is '' or int() refuses it
LastElement(lastRow, n) ==
    IF lastRow.k = "int" THEN Min(lastRow.v + 1, n) ELSE n

\* csvData after the "#range" block
SelectRows(data, firstRow, lastRow) ==
    LET firstElement == FirstElement(firstRow)
        lastElement == LastElement(lastRow, Len(data))
    IN IF firstElement # 1 \/ lastElement # Len(data)
       THEN PySlice(data, 0, 1) \o PySlice(data, firstElement, lastElement)
       ELSE data

\* p.match(po.get('ANNAME')) for
\* 'SGrepeat\_([RLUD])(\d+)?(\_([RLUD]))?(\_([rlud])(\d+))?(\_([rlud])(\d+))?(.+)':
\* every group between the direction and (.+) may match nothing, so the
\* name matches when one more character that is no line break follows
RepeatMatch(name) ==
    LET pre == <<"S", "G", "r", "e", "p", "e", "a", "t", "_">>
    IN /\ StartsWith(name, pre)
       /\ Len(name) >= Len(pre) + 2
       /\ name[Len(pre) + 1] \in {"R", "L", "U", "D"}
       /\ name[Len(pre) + 2] # "\n"

\* po.get('ANNAME') is there and matches the repeat pattern
IsRepeatObject(po) == po.ANNAME # << >> /\ RepeatMatch(po.ANNAME[1])

\* the PAGEOBJECTs at any depth ('.//PAGEOBJECT[@ANNAME]') whose ANNAME
\* matches the repeat pattern, by their places: <<j>> for child j of
\* DOCUMENT, <<j, m>> for member m of group j
RepeatObjects(elt) ==
    { <<j>> : j \in { i \in 1..Len(elt.objs) : IsRepeatObject(elt.objs[i]) } }
    \cup UNION { { <<j, m>> : m \in { n \in 1..Len(elt.objs[j].kids) :
                                        IsRepeatObject(elt.objs[j].kids[n]) } } :
                 j \in 1..Len(elt.objs) }

dataC == Len(csvData) - 1

fillCount == Len(str(dataC))

headerRowForFileName == csvData[1]

headerRowForReplacingVariables == handleAmpersand(csvData[1])

\* the document rendered from the row the loop is at
OutContent ==
    RenderDoc(templateElt, headerRowForReplacingVariables,
              handleAmpersand(csvData[index + 1]))

\* the deleteFile calls over names: os.remove raises OSError for a file
\* that an earlier call has removed
RECURSIVE DeleteFiles(_, _)
DeleteFiles(names, gone) ==
    IF names = << >> THEN [deleted |-> gone, raised |-> FALSE]
    ELSE IF \E k \in 1..Len(gone) : gone[k] = Head(names)
         THEN [deleted |-> gone, raised |-> TRUE]
         ELSE DeleteFiles(Tail(names), Append(gone, Head(names)))

\* only an empty data source halts the run
HaltsOnEmptyOnly(data) == Len(data) < 1

\* lines 72-77: the run halts when csvData has no row or one row only
HaltsOnData(data) == Len(data) < 1 \/ Len(data) < 2

\* line 66: getOutputFileName() is CONST.EMPTY, a test of identity: it
\* holds of the empty str (the default, a name set to '', and the
\* CONST.EMPTY that loadFromString stores for a JSON null) and not of the
\* unicode u'' that loadFromString stores for the JSON string ""
IsConstEmpty(settings) ==
    settings.outputFileName = EMPTY /\ ~settings.unicodeName

\* lines 66-77: the default output name, getCsvData, the two length tests
ReadData ==
    /\ pc = "start"
    /\ cfg' = IF cfg.singleOutput /\ IsConstEmpty(cfg)
              THEN [cfg EXCEPT !.outputFileName = SourceBaseName \o SingleSuffix]
              ELSE cfg
    /\ IF HaltsOnData(dataFile)
       THEN /\ ret' = -1
            /\ pc' = "done"
            /\ UNCHANGED csvData
       ELSE /\ csvData' = dataFile
            /\ pc' = "range"
            /\ UNCHANGED ret
    /\ UNCHANGED <<repeatFields, dataFile, tpl, index, ref, outputElt,
                   outputFileNames, written, exported, deleted, tplParsed, templateElt,
                   tplSaved, exitedEarly, raised, substVars>>

\* lines 79-102: the row range
SelectRange ==
    /\ pc = "range"
    /\ csvData' = SelectRows(csvData, cfg.firstRow, cfg.lastRow)
    /\ index' = 0
    /\ pc' = "header"
    /\ UNCHANGED <<inputVars, ref, outputElt, outputFileNames, written,
                   exported, deleted, tplParsed, templateElt, tplSaved, exitedEarly, ret,
                   raised, substVars>>

\* lines 105-127: the header row: the template is parsed and its
\* attributes are overwritten from its ItemAttributes; when the settings
\* are to be saved, SCRIPT of the settings element of DOCUMENT is set to
\* toString(), the element being inserted before the first COLOR when
\* DOCUMENT has none, and the tree is written back to the source file.
\* root is the object that templateElt names, so the element is in
\* templateElt too.  An exception of the overwriting leaves run(), and so
\* does the ValueError of getchildren().index(None), line 122, when there
\* is neither a settings element nor a COLOR
ParseTemplate ==
    /\ pc = "header"
    /\ tplParsed' = TRUE
    /\ \E overwritten \in {overwriteAttributesFromSGAttributes(tpl)} :
          IF \/ overwritten.raised
             \/ /\ cfg.saveSettings
                /\ overwritten.root.JAVA = << >>
                /\ overwritten.root.COLOR = 0
          THEN /\ raised' = TRUE
               /\ pc' = "done"
               /\ UNCHANGED <<templateElt, tplSaved, tpl>>
          ELSE /\ templateElt' =
                      IF cfg.saveSettings
                      THEN [overwritten.root EXCEPT
                               !.JAVA = <<toString(cfg)>>]
                      ELSE overwritten.root
               /\ tplSaved' = cfg.saveSettings
               /\ tpl' = IF cfg.saveSettings THEN templateElt' ELSE tpl
               /\ pc' = "repeat"
               /\ UNCHANGED raised
    /\ UNCHANGED <<cfg, repeatFields, dataFile, csvData, index, ref,
                   outputElt, outputFileNames, written, exported, deleted,
                   exitedEarly, ret, substVars>>

\* lines 131-145: with REPEAT_FIELDS set, the repeat detection, which ends
\* with "return 1" whatever it found
DetectRepeats ==
    /\ pc = "repeat"
    /\ repeatFields = 1
    /\ exitedEarly' = TRUE
    /\ ret' = 1
    /\ pc' = "done"
    /\ UNCHANGED <<inputVars, csvData, index, ref, outputElt, outputFileNames,
                   written, exported, deleted, tplParsed, templateElt, tplSaved, raised,
                   substVars>>

\* line 131 with REPEAT_FIELDS not set, and line 174 for the header row
SkipRepeats ==
    /\ pc = "repeat"
    /\ repeatFields # 1
    /\ index' = 1
    /\ pc' = IF dataC >= 1 THEN "loop" ELSE "after"
    /\ UNCHANGED <<inputVars, csvData, ref, outputElt, outputFileNames,
                   written, exported, deleted, tplParsed, templateElt, tplSaved,
                   exitedEarly, ret, raised, substVars>>

NextRow ==
    /\ index' = index + 1
    /\ pc' = IF index + 1 > dataC THEN "after" ELSE "loop"

\* lines 150-164: the first record becomes the reference document; without
\* GROUPC, int(docElt.get('GROUPC')) of line 157 is int(None), a TypeError
\* that leaves run()
RenderReference ==
    /\ pc = "loop"
    /\ cfg.singleOutput
    /\ index = 1
    /\ \E outElt \in {OutContent} :
          IF outElt.GROUPC = << >>
          THEN /\ raised' = TRUE
               /\ pc' = "done"
               /\ UNCHANGED <<index, ref, outputElt>>
          ELSE /\ ref' = [pagescount |-> outElt.ANZPAGES,
                          pageheight |-> outElt.PAGEHEIGHT,
                          vgap |-> outElt.GapVertical,
                          groupscount |-> int(outElt.GROUPC[1]),
                          objscount |-> CountObjects(outElt.objs),
                          version |-> outElt.Version]
               /\ outputElt' = << [outElt EXCEPT
                                      !.ANZPAGES = outElt.ANZPAGES * dataC,
                                      !.DOCCONTRIB = @ + 1] >>
               /\ NextRow
               /\ UNCHANGED raised
    /\ UNCHANGED <<inputVars, csvData, outputFileNames, written, exported,
                   deleted, tplParsed, templateElt, tplSaved, exitedEarly, ret,
                   substVars>>

\* lines 165-169: a later record is shifted and appended
MergeRecord ==
    /\ pc = "loop"
    /\ cfg.singleOutput
    /\ index # 1
    /\ LET shiftedElts ==
               shiftPagesAndObjects(OutContent, ref.pagescount,
                                    ref.pageheight, ref.vgap, index - 1,
                                    ref.groupscount, ref.objscount,
                                    ref.version)
       IN outputElt' = << [outputElt[1] EXCEPT
                              !.pages = @ \o shiftedElts.pages,
                              !.objs = @ \o shiftedElts.objs] >>
    /\ NextRow
    /\ UNCHANGED <<inputVars, csvData, ref, outputFileNames, written,
                   exported, deleted, tplParsed, templateElt, tplSaved, exitedEarly, ret,
                   raised, substVars>>

\* lines 170-173: a record is written as a document of its own
WriteRecord ==
    /\ pc = "loop"
    /\ ~cfg.singleOutput
    /\ LET outputFileName ==
               createOutputFileName(index, cfg.outputFileName,
                                    headerRowForFileName, csvData[index + 1],
                                    fillCount)
           w == writeSLA(OutContent, outputFileName, CleanByDefault)
       IN IF w.raised
          THEN /\ raised' = TRUE
               /\ pc' = "done"
               /\ UNCHANGED <<written, outputFileNames, index>>
          ELSE /\ written' = Append(written,
                                    [name |-> w.name, doc |-> w.doc])
               /\ outputFileNames' = Append(outputFileNames, outputFileName)
               /\ NextRow
               /\ UNCHANGED raised
    /\ UNCHANGED <<inputVars, csvData, ref, outputElt, exported, deleted,
                   tplParsed, templateElt, tplSaved, exitedEarly, ret,
                   substVars>>

\* lines 176-179: the consolidated document is written; outputElt is unbound
\* (a NameError) when no data row was rendered; writeSLA cleans the very
\* tree outputElt names
WriteSingle ==
    /\ pc = "after"
    /\ IF ~cfg.singleOutput
       THEN /\ pc' = "export"
            /\ UNCHANGED <<written, outputFileNames, raised, outputElt>>
       ELSE IF outputElt = << >>
            THEN /\ raised' = TRUE
                 /\ pc' = "done"
                 /\ UNCHANGED <<written, outputFileNames, outputElt>>
            ELSE LET w == writeSLA(outputElt[1], cfg.outputFileName,
                                   CleanByDefault)
                 IN /\ outputElt' = <<w.doc>>
                    /\ IF w.raised
                       THEN /\ raised' = TRUE
                            /\ pc' = "done"
                            /\ UNCHANGED <<written, outputFileNames>>
                       ELSE /\ written' = Append(written,
                                                 [name |-> w.name,
                                                  doc |-> w.doc])
                            /\ outputFileNames' = Append(outputFileNames,
                                                         cfg.outputFileName)
                            /\ pc' = "export"
                            /\ UNCHANGED raised
    /\ UNCHANGED <<inputVars, csvData, index, ref, exported, deleted,
                   tplParsed, templateElt, tplSaved, exitedEarly, ret,
                   substVars>>

\* lines 181-187: every written file is exported when the format is PDF
ExportPDF ==
    /\ pc = "export"
    /\ exported' = IF cfg.outputFormat = FORMAT_PDF
                   THEN exported \o outputFileNames
                   ELSE exported
    /\ pc' = "cleanup"
    /\ UNCHANGED <<inputVars, csvData, index, ref, outputElt, outputFileNames,
                   written, deleted, tplParsed, templateElt, tplSaved, exitedEarly, ret,
                   raised, substVars>>

\* lines 189-195: the written files are deleted unless the format is SLA or
\* they are to be kept; then "return 1"
Cleanup ==
    /\ pc = "cleanup"
    /\ IF cfg.outputFormat # FORMAT_SLA /\ cfg.keepGeneratedScribusFiles = 0
       THEN LET r == DeleteFiles(outputFileNames, << >>)
            IN /\ deleted' = r.deleted
               /\ raised' = r.raised
               /\ ret' = IF r.raised THEN 0 ELSE 1
       ELSE /\ ret' = 1
            /\ UNCHANGED <<deleted, raised>>
    /\ pc' = "done"
    /\ UNCHANGED <<inputVars, csvData, index, ref, outputElt, outputFileNames,
                   written, exported, tplParsed, templateElt, tplSaved, exitedEarly,
                   substVars>>

Next ==
    \/ ReadData
    \/ SelectRange
    \/ ParseTemplate
    \/ DetectRepeats
    \/ SkipRepeats
    \/ RenderReference
    \/ MergeRecord
    \/ WriteRecord
    \/ WriteSingle
    \/ ExportPDF
    \/ Cleanup

Spec == Init /\ [][Next]_vars

-----------------------------------------------------------------------------
(* What the substitution is expected to return, told from the pieces.      *)

HeaderTokens(h) == { VarToken(h[i]) : i \in 1..Len(h) }

\* every piece that is the token of a header field replaced by that field's
\* cell, all at once; every other piece as it is
PiecewiseSubst(h, row, pieces) ==
    [k \in 1..Len(pieces) |->
        IF \E i \in 1..Len(h) : pieces[k] = VarToken(h[i])
        THEN row[CHOOSE i \in 1..Len(h) : pieces[k] = VarToken(h[i])]
        ELSE pieces[k]]

\* a piece that is a placeholder token, %VAR_<name>%: the name is not empty
IsPlaceholder(piece) ==
    /\ StartsWith(piece, VarPrefix)
    /\ Len(piece) > Len(VarPrefix) + 1
    /\ piece[Len(piece)] = "%"

\* a piece that the pattern %VAR_\w*% matches as a whole
MatchesPattern(piece) ==
    /\ StartsWith(piece, VarPrefix)
    /\ piece[Len(piece)] = "%"
    /\ \A k \in (Len(VarPrefix) + 1)..(Len(piece) - 1) :
          piece[k] \in WordChars

\* the placeholder tokens among the pieces whose name matches no field of
\* the header
UnmatchedTokens(h, pieces) ==
    { pieces[k] : k \in { i \in 1..Len(pieces) :
                            /\ IsPlaceholder(pieces[i])
                            /\ pieces[i] \notin HeaderTokens(h) } }

\* the pieces the pattern matches that are the token of no header field
UnmatchedByPattern(h, pieces) ==
    { pieces[k] : k \in { i \in 1..Len(pieces) :
                            /\ MatchesPattern(pieces[i])
                            /\ pieces[i] \notin HeaderTokens(h) } }

RECURSIVE Repeat(_, _)
Repeat(c, n) == IF n = 0 THEN << >> ELSE <<c>> \o Repeat(c, n - 1)

\* one mark per character of a piece: "T" in a token to remove, "W" for
\* whitespace elsewhere, "X" for any other character
PieceMarks(tokens, piece) ==
    IF piece \in tokens THEN Repeat("T", Len(piece))
    ELSE [k \in 1..Len(piece) |->
             IF piece[k] \in Whitespace THEN "W" ELSE "X"]

RECURSIVE LineMarks(_, _)
LineMarks(tokens, pieces) ==
    IF pieces = << >> THEN << >>
    ELSE PieceMarks(tokens, Head(pieces)) \o LineMarks(tokens, Tail(pieces))

\* character i goes with a token to remove: it is part of one, or it is
\* whitespace with nothing but whitespace between it and one
GoesWithToken(m, i) ==
    \/ m[i] = "T"
    \/ /\ m[i] = "W"
       /\ \E j \in 1..Len(m) :
             /\ m[j] = "T"
             /\ \A k \in 1..Len(m) :
                   ((i < k /\ k < j) \/ (j < k /\ k < i)) => m[k] = "W"

RECURSIVE DropMarked(_, _, _)
DropMarked(line, m, i) ==
    IF i > Len(line) THEN << >>
    ELSE (IF GoesWithToken(m, i) THEN << >> ELSE <<line[i]>>)
         \o DropMarked(line, m, i + 1)

\* the line made of the pieces, without the pieces that are tokens to remove
\* and without their surrounding whitespace
WithoutTokens(tokens, pieces) ==
    DropMarked(Concat(pieces), LineMarks(tokens, pieces), 1)

\* the pieces of the line after field substitution: on a colour definition
\* nothing is substituted
Substituted ==
    IF IsColorLine(TheLine) THEN sPieces
    ELSE PiecewiseSubst(sHeader, sRow, sPieces)

NoHeaderTokenPiece ==
    \A k \in 1..Len(sPieces) : sPieces[k] \notin HeaderTokens(sHeader)

-----------------------------------------------------------------------------
(* Claims about replaceVariablesWithCsvData.                               *)

\* C1: on a line that is no colour definition, every %VAR_<field_i>% of the
\* template is replaced by exactly cell i of the record, whatever the cell
\* holds (stated for cleanup disabled, where nothing else touches the line).
C1_TokensReplacedByCells ==
    (sPhase # "in" /\ ~sClean /\ ~IsColorLine(TheLine))
        => sOut = Concat(PiecewiseSubst(sHeader, sRow, sPieces))

\* C8: substitution is idempotent: applying it to its own output, with the
\* same header and record, returns that output unchanged.
C8_Idempotent == sPhase = "twice" => sOut2 = sOut

\* C9: of the line after field substitution, a placeholder token
\* %VAR_<name>% whose name matches no header field is removed together with
\* its surrounding whitespace when cleanup is enabled and left verbatim
\* when it is disabled; in both cases all other text of the line, %VAR_%
\* and the tokens of header fields included, is left as it is.
C9_UnmatchedTokens ==
    sPhase # "in"
        => sOut = IF sClean
                  THEN WithoutTokens(UnmatchedTokens(sHeader, Substituted),
                                     Substituted)
                  ELSE Concat(Substituted)

\* what the cleanup does remove: on a line without a token of a header
\* field, every piece that the pattern %VAR_\w*% matches, with its
\* surrounding whitespace, and nothing else
PatternMatchesRemoved ==
    (sPhase # "in" /\ NoHeaderTokenPiece)
        => sOut = IF sClean
                  THEN WithoutTokens(UnmatchedByPattern(sHeader, sPieces),
                                     sPieces)
                  ELSE TheLine

\* the same claim as C9, lines that mix tokens of known and of unknown
\* fields included, where the names of the tokens are of word characters
\* and the line holds no %VAR_%, no cell holds a token, and no colour
\* definition holds the token of a header field
WordTokensRemoved ==
    (/\ sPhase # "in"
     /\ \A k \in 1..Len(sPieces) :
           sPieces[k] \notin {VarToken(FieldHyphen), VarToken(EMPTY)}
     /\ \A i \in 1..Len(sRow) : ~StartsWith(sRow[i], VarPrefix)
     /\ ~(IsColorLine(TheLine) /\ ~NoHeaderTokenPiece))
        => C9_UnmatchedTokens

-----------------------------------------------------------------------------
(* Claims about run().                                                     *)

\* the run has returned 1
Completed == pc = "done" /\ ret = 1 /\ ~raised

\* C2: a run returns early from the repeat detection if and only if the
\* template holds an object whose name matches the SGrepeat pattern; a run
\* whose template holds none renders every selected record (stated for the
\* value the source file gives REPEAT_FIELDS).
C2_EarlyExitIffRepeat ==
    (Completed /\ repeatFields = REPEAT_FIELDS)
        => /\ exitedEarly <=> RepeatObjects(tpl) # {}
           /\ RepeatObjects(tpl) = {} => index = dataC + 1

\* the text of the template's first object for a record
ExpectedText(row) == row[1] \o <<" ">> \o row[2]

\* C3: in multi-output mode a completed run over N records has written N
\* documents, the i-th rendering the i-th record, under N pairwise distinct
\* file names (the zero-padded index when no name template is given).
C3_EachRecordItsOwnDocument ==
    (Completed /\ ~cfg.singleOutput)
        => /\ Len(written) = dataC
           /\ \A i \in 1..Len(written) :
                 /\ written[i].doc.objs[1].ITEXT = <<ExpectedText(csvData[i + 1])>>
                 /\ cfg.outputFileName = EMPTY
                       => written[i].name = zfill(str(i), fillCount)
           /\ \A i, j \in 1..Len(written) :
                 i # j => written[i].name # written[j].name

\* C10: for integer bounds first and last and N data rows, the rows selected
\* are the header and the data rows at the 1-based positions
\* max(first, 1) .. min(last, N), in source order.
C10_RowRange ==
    (/\ pc \notin {"start", "range"}
     /\ Len(dataFile) >= 2
     /\ cfg.firstRow.k = "int"
     /\ cfg.lastRow.k = "int")
        => csvData = <<dataFile[1]>>
                     \o SubSeq(dataFile,
                               Max(cfg.firstRow.v, 1) + 1,
                               Min(cfg.lastRow.v, Len(dataFile) - 1) + 1)

-----------------------------------------------------------------------------
(* Claims about the consolidated document of single-output mode.           *)

\* the consolidated document as it grows, and as it is written
Consolidated ==
    { outputElt[k] : k \in 1..Len(outputElt) }
    \cup { written[k].doc : k \in { i \in 1..Len(written) : cfg.singleOutput } }

\* the consolidated document while records are folded into it, before
\* writeSLA removes the objects left without text
Growing ==
    { outputElt[k] : k \in { i \in 1..Len(outputElt) : pc \in {"loop", "after"} } }

\* the PAGEOBJECTs of a document at any depth: the record each was rendered
\* from, its place in the template (<<j>>, or <<j, m>> for member m of
\* group j), and the object
ObjectsOf(d) ==
    { [rec |-> d.objs[j].rec, at |-> <<d.objs[j].idx>>, o |-> d.objs[j]] :
        j \in 1..Len(d.objs) }
    \cup UNION { { [rec |-> d.objs[j].rec,
                    at |-> <<d.objs[j].idx, m>>,
                    o |-> d.objs[j].kids[m]] :
                     m \in 1..Len(d.objs[j].kids) } :
                 j \in 1..Len(d.objs) }

\* the object of the template at a place
TemplateAt(at) ==
    IF Len(at) = 1 THEN tpl.objs[at[1]] ELSE tpl.objs[at[1]].kids[at[2]]

Abs(x) == IF x < 0 THEN -x ELSE x

\* C4: the page blocks of distinct records do not overlap: two pages of
\* different records are at least a page height apart.
C4_NoPageOverlap ==
    \A d \in Consolidated :
        \A i, j \in 1..Len(d.pages) :
            d.pages[i].rec # d.pages[j].rec
                => Abs(d.pages[i].PAGEYPOS - d.pages[j].PAGEYPOS)
                       >= tpl.PAGEHEIGHT

\* C5: the page numbers (NUM) of the pages of the consolidated document are
\* pairwise distinct.
C5_DistinctPageNumbers ==
    \A d \in Consolidated :
        \A i, j \in 1..Len(d.pages) :
            i # j => d.pages[i].NUM # d.pages[j].NUM

\* C6: in the unique-identifier scheme the identifiers (ItemID) of the
\* objects of the consolidated document are pairwise distinct (the
\* template's identifiers being so).
C6_DistinctItemIDs ==
    \A d \in Consolidated :
        ~LinksByPosition(d.Version)
            => \A i, j \in 1..Len(d.objs) :
                   i # j => d.objs[i].ItemID # d.objs[j].ItemID

\* the place of a page or of an object of record rec is its place in the
\* template plus rec * (page height + gap)
IsAtOffset(ypos, rec, template) ==
    ypos = template + rec * (tpl.PAGEHEIGHT + tpl.GapVertical)

\* C7: in the consolidated document every page and every object, the
\* objects nested in a group included, of the k-th rendered record (k = 0
\* for the reference record) is at its template position plus
\* k * (page height + gap).
C7_RecordOffset ==
    /\ \A d \in Consolidated :
          \A i \in 1..Len(d.pages) :
              IsAtOffset(d.pages[i].PAGEYPOS, d.pages[i].rec,
                         tpl.pages[d.pages[i].idx].PAGEYPOS)
    /\ \A d \in Growing :
          \A e \in ObjectsOf(d) :
              IsAtOffset(e.o.YPOS, e.rec, TemplateAt(e.at).YPOS)

\* the same of the pages and of the PAGEOBJECT children of DOCUMENT only,
\* in the document as it grows and as it is written
PagesAndChildrenAtOffset ==
    \A d \in Consolidated :
        /\ \A i \in 1..Len(d.pages) :
              IsAtOffset(d.pages[i].PAGEYPOS, d.pages[i].rec,
                         tpl.pages[d.pages[i].idx].PAGEYPOS)
        /\ \A i \in 1..Len(d.objs) :
              IsAtOffset(d.objs[i].YPOS, d.objs[i].rec,
                         tpl.objs[d.objs[i].idx].YPOS)

-----------------------------------------------------------------------------
(* Claims about the attribute override.                                    *)

\* the model keeps the attribute of that name of the elements of that tag
\* as text
Keeps(tag, name) ==
    \/ tag = TagPAGEOBJECT
       /\ name \in {AttrFONT, AttrANNAME, AttrNEXTITEM, AttrBACKITEM,
                    AttrItemID}
    \/ tag = TagITEXT /\ name = AttrCH
    \/ tag = TagItemAttribute
       /\ name \in {AttrType, AttrName, AttrValue, AttrParameter}

\* annotation i of object j is not contradicted by a later annotation of
\* the same object, one that gives the same attribute another value
Uncontested(j, i) ==
    \A k \in (i + 1)..Len(tpl.objs[j].SGA) :
        LET a == tpl.objs[j].SGA[i]
            b == tpl.objs[j].SGA[k]
        IN (b.Type = SGAttribute /\ b.Name = a.Name) => b.Value = a.Value

\* every node that the path of annotation a finds from object j of the
\* template has, in the parsed template, the attribute a names at a's value
AnnotationApplied(j, a) ==
    \E found \in {FoundBy(ElementOf(tpl.objs[j]), TargetPath(a.Parameter))} :
        \A at \in found.nodes :
            Keeps(NodeAt(ElementOf(tpl.objs[j]), at).tag, a.Name)
                => <<a.Name, a.Value>>
                       \in NodeAt(ElementOf(templateElt.objs[j]), at).attrib

\* the attribute-override pass has run to its end
Overwritten == templateElt # << >>

\* C11: after the attribute-override pass, for every annotation of Type
\* SGAttribute on a content node, each of several on the same node included
\* (where they do not contradict each other), every node its path finds from
\* the content node has the named attribute at the annotation's value.
C11_AnnotationsApplied ==
    Overwritten
        => \A j \in 1..Len(tpl.objs) :
              \A i \in 1..Len(tpl.objs[j].SGA) :
                  (tpl.objs[j].SGA[i].Type = SGAttribute /\ Uncontested(j, i))
                      => AnnotationApplied(j, tpl.objs[j].SGA[i])

\* the first annotation of the recognised Type on every node is applied
FirstAnnotationApplied ==
    Overwritten
        => \A j \in 1..Len(tpl.objs) :
              SGAttributesOf(tpl.objs[j]) # << >>
                  => AnnotationApplied(j, SGAttributesOf(tpl.objs[j])[1])

-----------------------------------------------------------------------------
(* Claims about a data source without data rows.                           *)

\* C12: when the data source yields fewer than 2 rows (none, or the header
\* only), the run ends with the failure status -1 and without an exception,
\* and at no point of it is an output document written, the template parsed
\* or rewritten, a file exported or a file deleted.
C12_NoDataNoEffects ==
    Len(dataFile) < 2
        => /\ pc \in {"start", "done"}
           /\ pc = "done" => (ret = -1 /\ ~raised)
           /\ written = << >>
           /\ outputFileNames = << >>
           /\ ~tplParsed
           /\ ~tplSaved
           /\ exported = << >>
           /\ deleted = << >>

\* C12 witness: a run over a data source of a header row only has ended
\* with status -1; its settings asked for the template to be rewritten, for
\* an export and for the deletion of the intermediate files
C12_Witness ==
    /\ pc = "done"
    /\ Len(dataFile) = 1
    /\ ret = -1
    /\ cfg.saveSettings
    /\ cfg.outputFormat = FORMAT_PDF
    /\ cfg.keepGeneratedScribusFiles = 0
    /\ ~tplParsed
    /\ written = << >>

-----------------------------------------------------------------------------
(* Claims about the links between text frames.                             *)

\* the link new of object e of document d, which was old in the template,
\* is old itself when old is absent or -1; otherwise it refers to the
\* object of e's record that old referred to in the template, and to no
\* object of another record
LinkFollows(d, e, old, new) ==
    IF old = << >> \/ old = <<NoLink>>
    THEN new = old
    ELSE /\ new # << >>
         /\ IF LinksByPosition(d.Version)
            THEN LET p == int(new[1]) + 1
                 IN /\ p \in 1..Len(d.objs)
                    /\ d.objs[p].rec = e.rec
                    /\ d.objs[p].idx = int(old[1]) + 1
            ELSE LET hits == { x \in ObjectsOf(d) : x.o.ItemID = new[1] }
                 IN /\ \E x \in hits :
                          /\ x.rec = e.rec
                          /\ TemplateAt(x.at).ItemID = old[1]
                    /\ \A x \in hits : x.rec = e.rec

LinksFollowIn(d, entries) ==
    \A e \in entries :
        e.rec >= 1
            => /\ LinkFollows(d, e, TemplateAt(e.at).NEXTITEM, e.o.NEXTITEM)
               /\ LinkFollows(d, e, TemplateAt(e.at).BACKITEM, e.o.BACKITEM)

\* C13: in the consolidated document as it grows, in both link schemes,
\* a NEXTITEM or BACKITEM of a shifted record that was absent or -1 in the
\* template is unchanged, and every other one refers to the object of its
\* own record that it referred to in the template (by renumbered
\* identifier, or by position) and to no object of another record.
C13_LinksFollowObjects ==
    \A d \in Growing : LinksFollowIn(d, ObjectsOf(d))

\* the same of the PAGEOBJECT children of DOCUMENT only, in the scheme of
\* links by position
LinksByPositionFollow ==
    \A d \in Growing :
        LinksByPosition(d.Version)
            => LinksFollowIn(d, { e \in ObjectsOf(d) : Len(e.at) = 1 })

\* the same of the document as writeSLA leaves it
LinksFollowAfterWrite ==
    (\A j \in 1..Len(tpl.objs) : tpl.objs[j].kids = << >>)
        => \A k \in 1..Len(outputElt) :
              LinksFollowIn(outputElt[k], ObjectsOf(outputElt[k]))

\* the same of templates without groups
LinksFollowWithoutGroups ==
    (\A j \in 1..Len(tpl.objs) : tpl.objs[j].kids = << >>)
        => C13_LinksFollowObjects

-----------------------------------------------------------------------------
(* Claims about colour definitions.                                        *)

\* C14: a template line that is a colour definition (after strip() it starts
\* with '<COLOR ') is returned character for character, for every header
\* and record, with cleanup enabled or disabled, also when it holds
\* %VAR_<name>% for a known or an unknown field.
C14_ColorLineUntouched ==
    (sPhase # "in" /\ IsColorLine(TheLine)) => sOut = TheLine

\* the same with cleanup disabled
ColorLineUntouchedWithoutCleanup ==
    (sPhase # "in" /\ IsColorLine(TheLine) /\ ~sClean) => sOut = TheLine

-----------------------------------------------------------------------------
(* Claims about row bounds that cannot be used.                            *)

\* the first-row setting is text that is no integer, or it is beyond the
\* last data row
BadFirstRow ==
    \/ cfg.firstRow.k = "text"
    \/ cfg.firstRow.k = "int" /\ cfg.firstRow.v > Len(dataFile) - 1

\* the last-row setting is text that is no integer, or it is below 1
BadLastRow ==
    \/ cfg.lastRow.k = "text"
    \/ cfg.lastRow.k = "int" /\ cfg.lastRow.v < 1

\* first is greater than last
CrossedRows ==
    /\ cfg.firstRow.k = "int"
    /\ cfg.lastRow.k = "int"
    /\ cfg.firstRow.v > cfg.lastRow.v

\* the bounds are crossed, or one of them cannot be used and the other one
\* is not given or cannot be used either
UnusableBounds ==
    \/ CrossedRows
    \/ /\ BadFirstRow \/ BadLastRow
       /\ BadFirstRow \/ cfg.firstRow.k = "empty"
       /\ BadLastRow \/ cfg.lastRow.k = "empty"

\* C15: with row bounds that are unparsable or out of range (text that is
\* no integer, first beyond the last data row, last below 1, first greater
\* than last) no exception leaves the run, and the rows it processes are
\* all the data rows of the source, in single-output and in multi-output
\* mode.
C15_BadBoundsFallBack ==
    (Len(dataFile) >= 2 /\ UnusableBounds)
        => /\ ~raised
           /\ pc \notin {"start", "range"} => csvData = dataFile

\* the same of bounds of which one is text and the other one is text or
\* not given
UnparsableBoundsFallBack ==
    (/\ Len(dataFile) >= 2
     /\ cfg.firstRow.k \in {"text", "empty"}
     /\ cfg.lastRow.k \in {"text", "empty"}
     /\ "text" \in {cfg.firstRow.k, cfg.lastRow.k})
        => /\ ~raised
           /\ pc \notin {"start", "range"} => csvData = dataFile

\* no exception leaves a run whose bounds cannot be used
BadBoundsNeverAbort ==
    (Len(dataFile) >= 2 /\ UnusableBounds) => ~raised

-----------------------------------------------------------------------------
(* Claims about the deletion of the intermediate files.                    *)

\* the names in a sequence of file names
NamesIn(names) == { names[k] : k \in 1..Len(names) }

\* C16: a native-format output file is deleted only when the files are not
\* to be kept and that file has been exported earlier in the run; hence,
\* for every output format setting, the empty and an unrecognised one
\* included, at the end of a completed run every written document is still
\* there in its native form or has been exported.
C16_DeletedOnlyAfterExport ==
    /\ \A name \in NamesIn(deleted) :
          /\ cfg.keepGeneratedScribusFiles = 0
          /\ name \in NamesIn(exported)
    /\ Completed
          => \A k \in 1..Len(written) :
                \/ written[k].name \notin NamesIn(deleted)
                \/ written[k].name \in NamesIn(exported)

\* the same of the two output formats the program knows
KnownFormatsDeleteAfterExport ==
    cfg.outputFormat \in {FORMAT_PDF, FORMAT_SLA}
        => C16_DeletedOnlyAfterExport

=============================================================================
